---- MODULE Spec2Model ----
(***************************************************************************)
(* Model of the user service of pkg/services/user/userimpl/user.go:        *)
(* the signed-in-user lookup with its 5 second local cache                 *)
(* (GetSignedInUserWithCacheCtx, GetSignedInUser, newSignedInUserCacheKey) *)
(* and the active-organisation switch (SetUsingOrg).                       *)
(*                                                                         *)
(* A Go *SignedInUser is a struct whose Teams field is a slice and whose   *)
(* Permissions field is a map: copying the struct copies the scalar fields *)
(* and shares the slice's backing array and the map.  The model keeps the  *)
(* two kinds of shared storage in heapTeams and heapPerms and a struct     *)
(* value holds addresses into them (0 is nil).                             *)
(***************************************************************************)
EXTENDS Integers, Sequences, FiniteSets, TLC

\* ---------------------------------------------------------------- bounds
MaxCalls == 2
MaxTeams == 3
MaxUsers == 2

\* -------------------------------------------------------------- constants
\* the ttl as five minutes
CacheTTLMinutes == 5 * 60

\* time.Second*5, the ttl GetSignedInUserWithCacheCtx passes to cacheService.Set
CacheTTL == 5

Callers == {"c1", "c2"}
UserIDs == {1, 11}
OrgIDs == {1, 11}
TeamIDs == {2, 5, 9}
\* the organisations of the SetUsingOrg runs
SwitchOrgIDs == {1, 3, 7}

ActionTeamsRead == "teams:read"
ScopeTeamsAll == "teams:*"

\* ------------------------------------------------------------ data values
\* the zero SignedInUser; also stands for a nil *SignedInUser
NilUser == [UserID |-> 0, OrgID |-> 0, Teams |-> 0, Permissions |-> 0]

EmptyPerms == [o \in {} |-> <<>>]

\* map[int64]map[string][]string with the single entry org -> action -> scopes
OnePerm(org, action, scopes) == (org :> (action :> scopes))

\* sequences over S of length at most n
RECURSIVE SeqsUpTo(_, _)
SeqsUpTo(S, n) ==
  IF n = 0 THEN {<<>>}
  ELSE LET shorter == SeqsUpTo(S, n - 1)
       IN shorter \cup {Append(s, x) : s \in {t \in shorter : Len(t) = n - 1}, x \in S}

\* ------------------------------------------------------- cache key format
Digit(d) ==
  CASE d = 0 -> "0" [] d = 1 -> "1" [] d = 2 -> "2" [] d = 3 -> "3" [] d = 4 -> "4"
    [] d = 5 -> "5" [] d = 6 -> "6" [] d = 7 -> "7" [] d = 8 -> "8" [] d = 9 -> "9"

\* fmt's %d of a non-negative integer, as a sequence of characters
RECURSIVE Decimal(_)
Decimal(n) == IF n < 10 THEN <<Digit(n)>> ELSE Decimal(n \div 10) \o <<Digit(n % 10)>>

\* fmt's %d
FormatInt(n) == IF n < 0 THEN <<"-">> \o Decimal(0 - n) ELSE Decimal(n)

\* fmt.Sprintf("signed-in-user-%d-%d", userID, orgID)
newSignedInUserCacheKey(orgID, userID) ==
  <<"signed-in-user-">> \o FormatInt(userID) \o <<"-">> \o FormatInt(orgID)

\* ------------------------------------------------------------------ state
VARIABLES
  cache,      \* cacheService: key -> [val: SignedInUser struct, left: seconds to expiry]
  heapTeams,  \* backing arrays of the Teams slices, by address
  heapPerms,  \* the Permissions maps, by address
  call,       \* per caller: the state of its GetSignedInUserWithCacheCtx call
  prev,       \* per caller: its call that resolved and cached a user in the last 5 seconds
  lastSet,    \* key -> the latest cacheService.Set on it: value, seconds since, caller
  calls,      \* number of calls started
  teams,      \* team service: the teams it lists for a user, in its order
  granted,    \* user store: whether it holds a permission for the user
  orgList,    \* org service: user -> the list of its organisations
  usingOrg,   \* user store: user -> its active organisation (user.OrgID)
  setOrg,     \* the last SetUsingOrg: its command, what the org service listed,
              \* its error, its calls of store.UpdateUser, the active org before it
  userTable,  \* user store: the user records, each with the ID Insert gave it
  nextUserID, \* user store: the ID the next Insert gives
  orgUserTable, \* org service: the org-user links
  created,    \* the last Create: its command, what it did and what it returned
  registerOptionEditors, \* PanelPlugin: the registered options builder, if any
  optionDependencies,    \* PanelPlugin._optionDependencies, if defined
  lastOptionsItems,      \* PanelPlugin._lastOptionsItems, if defined
  lastOptions,           \* PanelPlugin._lastOptions, if defined
  returned    \* the last getOptionsEditors: its argument, the items it returned
              \* and the items the registered builder gives for the argument

vars == <<cache, heapTeams, heapPerms, call, prev, lastSet, calls, teams, granted,
          orgList, usingOrg, setOrg, userTable, nextUserID, orgUserTable, created,
          registerOptionEditors, optionDependencies, lastOptionsItems, lastOptions,
          returned>>

cacheVars == <<cache, heapTeams, heapPerms, call, prev, lastSet, calls, teams, granted>>
orgVars == <<orgList, usingOrg, setOrg>>
createVars == <<userTable, nextUserID, orgUserTable, created>>
panelVars == <<registerOptionEditors, optionDependencies, lastOptionsItems, lastOptions,
               returned>>

\* an optional value: undefined, or defined as v
Undefined == <<>>
Defined(v) == <<v>>

NoQuery == [UserID |-> 0, OrgID |-> 0]
NoPrev == [query |-> NoQuery, val |-> NilUser, left |-> 0]
NoSetOrg == [UserID |-> 0, OrgID |-> 0, err |-> "", looked |-> FALSE, orgs |-> <<>>,
             nUpdate |-> 0, was |-> 0]
NoCreate == [called |-> FALSE, Login |-> "", SkipOrgSetup |-> FALSE, userID |-> 0,
             inserted |-> FALSE, linkFailed |-> FALSE, linkInserted |-> FALSE,
             usr |-> 0, err |-> ""]
NoReturn == [called |-> FALSE, current |-> Undefined, items |-> <<>>, required |-> <<>>,
             memoized |-> FALSE]
NoTeamQuery == [OrgId |-> 0, UserId |-> 0, SignedInUser |-> [OrgID |-> 0, Permissions |-> EmptyPerms]]

\* a caller that is not inside GetSignedInUserWithCacheCtx and holds no result
IdleCall ==
  [pc |-> "idle", query |-> NoQuery,
   hit |-> FALSE,      \* the cache lookup found an entry
   stale |-> FALSE,    \* the lookup met an entry written more than 5 seconds before
   raced |-> FALSE,    \* another call for the same query missed while this one had
   result |-> NilUser, \* what GetSignedInUser returned to this call
   ret |-> NilUser, err |-> "",
   nStore |-> 0, nTeam |-> 0, nWrite |-> 0,
   first |-> NilUser,  \* what this caller's call for the same query returned when it
                       \* resolved and cached a user less than 5 seconds ago
   storeUser |-> NilUser, storePerms |-> EmptyPerms,
   teamQuery |-> NoTeamQuery, teamResult |-> <<>>]

\* ------------------------------------------------------------ the cache
\* cacheService.Get: an entry is found until its time to live has passed
CacheFound(c, key) == key \in DOMAIN c /\ c[key].left >= 0

\* cacheService.Set(key, value, ttl)
CacheSetEntry(c, key, value, ttl) ==
  [k \in DOMAIN c \cup {key} |-> IF k = key THEN [val |-> value, left |-> ttl] ELSE c[k]]

\* a second passes for the entries of the cache
CacheAge(c) == [k \in DOMAIN c |-> [c[k] EXCEPT !.left = IF @ < 0 THEN @ ELSE @ - 1]]

\* the contents a struct value shows to whoever reads it now
Deep(v) ==
  [UserID |-> v.UserID, OrgID |-> v.OrgID,
   Teams |-> IF v.Teams = 0 THEN <<>> ELSE heapTeams[v.Teams],
   Permissions |-> IF v.Permissions = 0 THEN EmptyPerms ELSE heapPerms[v.Permissions]]

\* storage no struct refers to any more is reclaimed
Live(c, cl, pv) ==
  {c[k].val.Teams : k \in DOMAIN c} \cup {cl[p].result.Teams : p \in Callers}
    \cup {cl[p].ret.Teams : p \in Callers} \cup {cl[p].first.Teams : p \in Callers}
    \cup {pv[p].val.Teams : p \in Callers}

Collect(h, live, empty) == [a \in DOMAIN h |-> IF a \in live THEN h[a] ELSE empty]

\* ---------------------------------------------------------- collaborators
\* store.GetSignedInUser(query): an error, or the projection of the user in
\* the organisation the store resolves for it, with its permissions
StoreGetSignedInUser(query) ==
  {[err |-> "user not found", user |-> NilUser, perms |-> EmptyPerms]}
    \cup {[err |-> "",
           user |-> [UserID |-> query.UserID, OrgID |-> o, Teams |-> 0, Permissions |-> 0],
           perms |-> IF granted THEN OnePerm(o, "users:read", <<"users:*">>) ELSE EmptyPerms]
          : o \in OrgIDs}

\* teamService.GetTeamsByUser(query): an error, or query.Result, the list of
\* the user's teams in the order the service has them
TeamGetTeamsByUser(teamQuery) ==
  {[err |-> "team lookup failed", result |-> <<>>],
   [err |-> "", result |-> [i \in 1..Len(teams) |-> [Id |-> teams[i], OrgId |-> teamQuery.OrgId]]]}

\* --------------------------------------------------- pieces of the service
\* tempUser of GetSignedInUser
TempUser(signedInUser) ==
  [OrgID |-> signedInUser.OrgID,
   Permissions |-> OnePerm(signedInUser.OrgID, ActionTeamsRead, <<ScopeTeamsAll>>)]

\* getTeamsByUserQuery of GetSignedInUser
GetTeamsByUserQuery(signedInUser) ==
  [OrgId |-> signedInUser.OrgID, UserId |-> signedInUser.UserID,
   SignedInUser |-> TempUser(signedInUser)]

\* the IDs appended to a slice that was made with the length of the result
ProjectTeamsAppended(result) ==
  [i \in 1..Len(result) |-> 0] \o [i \in 1..Len(result) |-> result[i].Id]

\* signedInUser.Teams[i] = t.Id for every i, t of the lookup's result
ProjectTeams(result) == [i \in 1..Len(result) |-> result[i].Id]

\* the Permissions of tempUser left on the user that is returned
ResultPermissionsOfTempUser(storePerms, tempUser) == tempUser.Permissions

\* the Permissions of the user GetSignedInUser returns: the store's, untouched
ResultPermissions(storePerms, tempUser) == storePerms

\* the cache write made before the error is looked at
ReachesCacheWriteAnyway(err) == TRUE

\* if err != nil { return nil, err } between the resolution and the cache write
ReachesCacheWrite(err) == err = ""

\* the key of the lookup used again for the write
WriteKeyOfQuery(query, result) == newSignedInUserCacheKey(query.OrgID, query.UserID)

\* cacheKey = newSignedInUserCacheKey(result.OrgID, query.UserID)
WriteKey(query, result) == newSignedInUserCacheKey(result.OrgID, query.UserID)

\* a write under the key of the lookup and one under the key of the result
WriteKeysBoth(query, result) ==
  <<newSignedInUserCacheKey(query.OrgID, query.UserID), WriteKey(query, result)>>

\* the keys GetSignedInUserWithCacheCtx sets after a resolution, in order
WriteKeys(query, result) == <<WriteKey(query, result)>>

\* cacheService.Add in place of Set: an entry that is still found is kept
StoreInCacheIfAbsent(c, key, value) ==
  IF CacheFound(c, key) THEN c ELSE CacheSetEntry(c, key, value, CacheTTL)

\* s.cacheService.Set(cacheKey, *result, time.Second*5)
StoreInCache(c, key, value) == CacheSetEntry(c, key, value, CacheTTL)

\* the lookup met an entry whose write lies more than 5 seconds back
WrittenLongAgo(key) == key \in DOMAIN lastSet /\ lastSet[key].age > 5

\* valid as soon as the user has any organisation
ValidAnyOrg(orgsForUser, orgID) == Len(orgsForUser) > 0

\* the loop of SetUsingOrg over orgsForUser
Valid(orgsForUser, orgID) == \E i \in 1..Len(orgsForUser) : orgsForUser[i].OrgID = orgID

\* every Set of the list, first to last
RECURSIVE SetAll(_, _, _)
SetAll(c, keys, value) ==
  IF keys = <<>> THEN c
  ELSE SetAll(StoreInCache(c, Head(keys), value), Tail(keys), value)

RECURSIVE NoteAll(_, _, _, _)
NoteAll(ls, keys, value, p) ==
  IF keys = <<>> THEN ls
  ELSE NoteAll([k \in DOMAIN ls \cup {Head(keys)} |->
                  IF k = Head(keys) THEN [val |-> value, age |-> 0, by |-> p] ELSE ls[k]],
               Tail(keys), value, p)

\* ---------------------------------------------------------------- Init
\* nothing cached, nobody calling
Fresh ==
  /\ cache = [k \in {} |-> [val |-> NilUser, left |-> 0]]
  /\ heapTeams = <<>>
  /\ heapPerms = <<>>
  /\ call = [p \in Callers |-> IdleCall]
  /\ prev = [p \in Callers |-> NoPrev]
  /\ lastSet = [k \in {} |-> [val |-> NilUser, age |-> 0, by |-> "c1"]]
  /\ calls = 0
  /\ orgList = [u \in UserIDs |-> <<>>]
  /\ usingOrg = [u \in UserIDs |-> 0]
  /\ setOrg = NoSetOrg
  /\ userTable = {}
  /\ nextUserID = 1
  /\ orgUserTable = {}
  /\ created = NoCreate
  /\ registerOptionEditors = Undefined
  /\ optionDependencies = Undefined
  /\ lastOptionsItems = Undefined
  /\ lastOptions = Undefined
  /\ returned = NoReturn

Init == teams = <<5, 2, 9>> /\ granted = TRUE /\ Fresh

\* ------------------------------------------------------------- actions
\* GetSignedInUserWithCacheCtx, from its entry to the cache lookup: a hit
\* returns a copy of the cached struct, a miss goes on to GetSignedInUser
GetCached(p, userID, orgID) ==
  /\ call[p].pc \in {"idle", "done"}
  /\ calls < MaxCalls
  /\ LET query == [UserID |-> userID, OrgID |-> orgID]
         cacheKey == newSignedInUserCacheKey(query.OrgID, query.UserID)
         found == CacheFound(cache, cacheKey)
         racing == {q \in Callers \ {p} :
                      call[q].pc \in {"miss", "resolved"} /\ call[q].query = query}
         entered == [IdleCall EXCEPT !.query = query,
                                     !.stale = WrittenLongAgo(cacheKey),
                                     !.first = IF prev[p].query = query
                                               THEN prev[p].val ELSE NilUser]
         mine == IF found
                 THEN [entered EXCEPT !.pc = "done", !.hit = TRUE,
                                      !.ret = cache[cacheKey].val]
                 ELSE [entered EXCEPT !.pc = "miss", !.raced = racing # {}]
         cl == [q \in Callers |->
                  IF q = p THEN mine
                  ELSE IF ~found /\ q \in racing THEN [call[q] EXCEPT !.raced = TRUE]
                  ELSE call[q]]
     IN /\ call' = cl
        /\ heapTeams' = Collect(heapTeams, Live(cache, cl, prev), <<>>)
        /\ heapPerms' = Collect(heapPerms, Live(cache, cl, prev), EmptyPerms)
  /\ calls' = calls + 1
  /\ UNCHANGED <<cache, prev, lastSet, teams, granted, orgVars, createVars, panelVars>>

\* GetSignedInUser, called on a miss, and the error check on its return
GetSignedInUser(p) ==
  /\ call[p].pc = "miss"
  /\ \E fetched \in StoreGetSignedInUser(call[p].query) :
       IF fetched.err # ""
       THEN /\ call' = [call EXCEPT ![p] =
                         [@ EXCEPT !.pc = IF ReachesCacheWrite(fetched.err)
                                          THEN "resolved" ELSE "done",
                                   !.err = fetched.err, !.nStore = @ + 1]]
            /\ UNCHANGED <<heapTeams, heapPerms>>
       ELSE LET signedInUser == fetched.user
                getTeamsByUserQuery == GetTeamsByUserQuery(signedInUser)
            IN \E looked \in TeamGetTeamsByUser(getTeamsByUserQuery) :
                 IF looked.err # ""
                 THEN /\ call' = [call EXCEPT ![p] =
                                   [@ EXCEPT !.pc = IF ReachesCacheWrite(looked.err)
                                                    THEN "resolved" ELSE "done",
                                             !.err = looked.err,
                                             !.nStore = @ + 1, !.nTeam = @ + 1]]
                      /\ UNCHANGED <<heapTeams, heapPerms>>
                 ELSE LET a == Len(heapTeams) + 1
                      IN /\ heapTeams' = Append(heapTeams, ProjectTeams(looked.result))
                         /\ heapPerms' = Append(heapPerms,
                               ResultPermissions(fetched.perms, getTeamsByUserQuery.SignedInUser))
                         /\ call' = [call EXCEPT ![p] =
                               [@ EXCEPT !.pc = IF ReachesCacheWrite("")
                                                THEN "resolved" ELSE "done",
                                         !.result = [signedInUser EXCEPT !.Teams = a,
                                                                         !.Permissions = a],
                                         !.nStore = @ + 1, !.nTeam = @ + 1,
                                         !.storeUser = fetched.user,
                                         !.storePerms = fetched.perms,
                                         !.teamQuery = getTeamsByUserQuery,
                                         !.teamResult = looked.result]]
  /\ UNCHANGED <<cache, prev, lastSet, calls, teams, granted, orgVars, createVars, panelVars>>

\* GetSignedInUserWithCacheCtx, from the key of the write to its return
CacheSet(p) ==
  /\ call[p].pc = "resolved"
  /\ LET keys == WriteKeys(call[p].query, call[p].result)
         c == SetAll(cache, keys, call[p].result)
         cl == [call EXCEPT ![p] =
                  [@ EXCEPT !.pc = "done", !.ret = call[p].result,
                            !.nWrite = @ + Len(keys),
                            !.storeUser = NilUser, !.storePerms = EmptyPerms,
                            !.teamQuery = NoTeamQuery, !.teamResult = <<>>]]
         pv == [prev EXCEPT ![p] =
                  IF call[p].err = ""
                  THEN [query |-> call[p].query, val |-> call[p].result, left |-> 5]
                  ELSE @]
     IN /\ cache' = c
        /\ call' = cl
        /\ prev' = pv
        /\ lastSet' = NoteAll(lastSet, keys, call[p].result, p)
        /\ heapTeams' = Collect(heapTeams, Live(c, cl, pv), <<>>)
        /\ heapPerms' = Collect(heapPerms, Live(c, cl, pv), EmptyPerms)
  /\ UNCHANGED <<calls, teams, granted, orgVars, createVars, panelVars>>

\* a second passes
Tick ==
  LET c == CacheAge(cache)
      pv == [p \in Callers |->
               IF prev[p].left = 0 THEN NoPrev ELSE [prev[p] EXCEPT !.left = @ - 1]]
  IN /\ cache' = c
     /\ prev' = pv
     /\ lastSet' = [k \in DOMAIN lastSet |->
                      [lastSet[k] EXCEPT !.age = IF @ > 5 THEN @ ELSE @ + 1]]
     /\ heapTeams' = Collect(heapTeams, Live(c, call, pv), <<>>)
     /\ heapPerms' = Collect(heapPerms, Live(c, call, pv), EmptyPerms)
     /\ UNCHANGED <<call, calls, teams, granted, orgVars, createVars, panelVars>>

\* the caller assigns to an element of the Teams slice of the user it was handed
WriteTeams(p, i, t) ==
  /\ call[p].pc = "done"
  /\ call[p].ret.Teams # 0
  /\ i \in 1..Len(heapTeams[call[p].ret.Teams])
  /\ t \in TeamIDs
  /\ heapTeams[call[p].ret.Teams][i] # t
  /\ heapTeams' = [heapTeams EXCEPT ![call[p].ret.Teams][i] = t]
  /\ UNCHANGED <<cache, heapPerms, call, prev, lastSet, calls, teams, granted, orgVars, createVars, panelVars>>

\* the caller adds an entry to the Permissions map of the user it was handed
WritePermissions(p) ==
  /\ call[p].pc = "done"
  /\ call[p].ret.Permissions # 0
  /\ LET a == call[p].ret.Permissions
         written == OnePerm(call[p].ret.OrgID, "users:write", <<"users:*">>)
     IN /\ heapPerms[a] # written
        /\ heapPerms' = [heapPerms EXCEPT ![a] = written]
  /\ UNCHANGED <<cache, heapTeams, call, prev, lastSet, calls, teams, granted, orgVars, createVars, panelVars>>

\* SetUsingOrg(cmd)
SetUsingOrg(userID, orgID) ==
  /\ \E lookupErr \in {"", "org list failed"}, updateErr \in {"", "update failed"} :
       LET cmd == [UserID |-> userID, OrgID |-> orgID]
           orgsForUser == IF lookupErr = "" THEN orgList[cmd.UserID] ELSE <<>>
           done == [NoSetOrg EXCEPT !.UserID = cmd.UserID, !.OrgID = cmd.OrgID,
                                    !.was = usingOrg[cmd.UserID]]
       IN IF lookupErr # ""
          THEN /\ setOrg' = [done EXCEPT !.err = lookupErr]
               /\ UNCHANGED usingOrg
          ELSE IF ~Valid(orgsForUser, cmd.OrgID)
          THEN /\ setOrg' = [done EXCEPT !.err = "user does not belong to org",
                                         !.looked = TRUE, !.orgs = orgsForUser]
               /\ UNCHANGED usingOrg
          ELSE IF updateErr # ""
          THEN /\ setOrg' = [done EXCEPT !.err = updateErr, !.looked = TRUE,
                                         !.orgs = orgsForUser, !.nUpdate = 1]
               /\ UNCHANGED usingOrg
          ELSE /\ setOrg' = [done EXCEPT !.looked = TRUE, !.orgs = orgsForUser,
                                         !.nUpdate = 1]
               /\ usingOrg' = [usingOrg EXCEPT ![cmd.UserID] = cmd.OrgID]
  /\ UNCHANGED <<cacheVars, orgList, createVars, panelVars>>

\* the org service gains a membership of the user (orgService.InsertOrgUser)
AddOrgUser(userID, orgID) ==
  /\ \A i \in 1..Len(orgList[userID]) : orgList[userID][i].OrgID # orgID
  /\ orgList' = [orgList EXCEPT ![userID] = Append(@, [OrgID |-> orgID, UserID |-> userID])]
  /\ UNCHANGED <<cacheVars, usingOrg, setOrg, createVars, panelVars>>

\* the org service loses a membership of the user
RemoveOrgUser(userID, i) ==
  /\ i \in 1..Len(orgList[userID])
  /\ orgList' = [orgList EXCEPT ![userID] =
                   SubSeq(@, 1, i - 1) \o SubSeq(@, i + 1, Len(@))]
  /\ UNCHANGED <<cacheVars, usingOrg, setOrg, createVars, panelVars>>

\* setting.AutoAssignOrgRole
AutoAssignOrgRole == "Viewer"

\* the Role of the org user Create links the new user with
OrgUserRole(cmd, autoAssignOrg) ==
  IF autoAssignOrg /\ ~cmd.IsAdmin
  THEN IF cmd.DefaultOrgRole # "" THEN cmd.DefaultOrgRole ELSE AutoAssignOrgRole
  ELSE "Admin"

\* what Create returns as its error after the org-user link failed:
\* err := s.store.Delete(ctx, userID); return usr, err
ErrorAfterRollback(linkErr, deleteErr) == deleteErr

\* Create(cmd); each collaborator call fails or not
Create(cmd, autoAssignOrg, orgID, fails) ==
  /\ nextUserID <= MaxUsers
  /\ LET email == IF cmd.Email = "" THEN cmd.Login ELSE cmd.Email
         usr == [ID |-> nextUserID, Login |-> cmd.Login, Email |-> email,
                 IsAdmin |-> cmd.IsAdmin, OrgID |-> orgID]
         orgUser == [OrgID |-> orgID, UserID |-> usr.ID,
                     Role |-> OrgUserRole(cmd, autoAssignOrg)]
         began == [NoCreate EXCEPT !.called = TRUE, !.Login = cmd.Login,
                                   !.SkipOrgSetup = cmd.SkipOrgSetup]
     IN IF "GetIDForNewUser" \in fails
        THEN /\ created' = [began EXCEPT !.err = "org id failed"]
             /\ UNCHANGED <<userTable, nextUserID, orgUserTable>>
        ELSE IF "Get" \in fails
        THEN /\ created' = [began EXCEPT !.err = "store get failed"]
             /\ UNCHANGED <<userTable, nextUserID, orgUserTable>>
        ELSE IF "GetRandomString" \in fails \/ (cmd.Password # "" /\ "EncodePassword" \in fails)
        THEN /\ created' = [began EXCEPT !.err = "random or encoding failed"]
             /\ UNCHANGED <<userTable, nextUserID, orgUserTable>>
        ELSE IF "Insert" \in fails
        THEN /\ created' = [began EXCEPT !.err = "insert failed"]
             /\ UNCHANGED <<userTable, nextUserID, orgUserTable>>
        ELSE IF cmd.SkipOrgSetup
        THEN /\ userTable' = userTable \cup {usr}
             /\ nextUserID' = nextUserID + 1
             /\ created' = [began EXCEPT !.userID = usr.ID, !.inserted = TRUE,
                                         !.usr = usr.ID]
             /\ UNCHANGED orgUserTable
        ELSE IF "InsertOrgUser" \notin fails
        THEN /\ userTable' = userTable \cup {usr}
             /\ nextUserID' = nextUserID + 1
             /\ orgUserTable' = orgUserTable \cup {orgUser}
             /\ created' = [began EXCEPT !.userID = usr.ID, !.inserted = TRUE,
                                         !.linkInserted = TRUE, !.usr = usr.ID]
        ELSE LET deleteErr == IF "Delete" \in fails THEN "delete failed" ELSE ""
             IN /\ userTable' = IF deleteErr = "" THEN userTable ELSE userTable \cup {usr}
                /\ nextUserID' = nextUserID + 1
                /\ created' = [began EXCEPT !.userID = usr.ID, !.inserted = TRUE,
                                            !.linkFailed = TRUE, !.usr = usr.ID,
                                            !.err = ErrorAfterRollback("link failed", deleteErr)]
                /\ UNCHANGED orgUserTable
  /\ UNCHANGED <<cacheVars, orgVars, panelVars>>

\* the keys of the panel options and the values of an option
OptionKeys == {"mode", "limit"}
OptionValues == {0, 1}

\* the options objects a caller passes: two objects can hold the same
\* values and still be different objects
PanelOptions == [ref : {1, 2}, mode : OptionValues, limit : OptionValues]

\* the options builders a plugin registers: each declares the option keys
\* its items depend on and adds its items for the current options
OptionsBuilders == {"static", "byMode", "byLimit"}

\* builder.getDependencies() after the registered builder ran
getDependencies(b) ==
  CASE b = "static" -> <<>>
    [] b = "byMode" -> <<"mode">>
    [] b = "byLimit" -> <<"limit">>

\* builder.getItems() after the registered builder ran on current
getItems(b, current) ==
  CASE b = "static" -> <<"title">>
    [] b = "byMode" ->
         IF current # Undefined /\ current[1].mode = 1
         THEN <<"mode", "modeDetail">> ELSE <<"mode">>
    [] b = "byLimit" ->
         IF current # Undefined /\ current[1].limit = 1
         THEN <<"limit", "limitValue">> ELSE <<"limit">>

\* the items of a new PanelOptionsEditorBuilder after registerOptionEditors,
\* if there is one, ran on current
BuiltItems(register, current) ==
  IF register # Undefined THEN getItems(register[1], current) ELSE <<>>

\* the loop over this._optionDependencies: no dependency differs between
\* current and this._lastOptions
Same(dependencies, current, last) ==
  IF dependencies # Undefined /\ current # last
  THEN \A i \in 1..Len(dependencies[1]) :
         current[dependencies[1][i]] = last[dependencies[1][i]]
  ELSE TRUE

\* setPanelOptions(builder)
setPanelOptions(b) ==
  /\ registerOptionEditors' = Defined(b)
  /\ UNCHANGED <<optionDependencies, lastOptionsItems, lastOptions, returned>>
  /\ UNCHANGED <<cacheVars, orgVars, createVars>>

\* getOptionsEditors(current); current is undefined or an options object
getOptionsEditors(current) ==
  LET called == [NoReturn EXCEPT !.called = TRUE, !.current = current,
                   !.required = BuiltItems(registerOptionEditors, current)]
  IN /\ IF /\ current # Undefined
            /\ lastOptionsItems # Undefined
            /\ lastOptions # Undefined
            /\ Same(optionDependencies, current[1], lastOptions[1])
         THEN /\ returned' = [called EXCEPT !.items = lastOptionsItems[1],
                                            !.memoized = TRUE]
              /\ UNCHANGED <<optionDependencies, lastOptionsItems, lastOptions>>
         ELSE LET items == BuiltItems(registerOptionEditors, current)
              IN /\ optionDependencies' =
                      IF registerOptionEditors # Undefined
                      THEN Defined(getDependencies(registerOptionEditors[1]))
                      ELSE optionDependencies
                 /\ IF current # Undefined
                    THEN /\ lastOptions' = current
                         /\ lastOptionsItems' = Defined(items)
                    ELSE UNCHANGED <<lastOptions, lastOptionsItems>>
                 /\ returned' = [called EXCEPT !.items = items]
     /\ UNCHANGED registerOptionEditors
     /\ UNCHANGED <<cacheVars, orgVars, createVars>>

Next ==
  \/ \E p \in Callers, userID \in UserIDs, orgID \in OrgIDs : GetCached(p, userID, orgID)
  \/ \E p \in Callers : GetSignedInUser(p)
  \/ \E p \in Callers : CacheSet(p)
  \/ Tick

\* concurrent callers and the passing of time; the team service lists [5, 2, 9]
\* and the store holds a permission for the user
Spec == Init /\ [][Next]_vars

\* one caller, every list of teams the team service may hold, with and without
\* a permission in the store
InitResolve == teams \in SeqsUpTo(TeamIDs, MaxTeams) /\ granted \in BOOLEAN /\ Fresh

NextResolve ==
  \/ \E userID \in UserIDs, orgID \in OrgIDs : GetCached("c1", userID, orgID)
  \/ GetSignedInUser("c1")
  \/ CacheSet("c1")

SpecResolve == InitResolve /\ [][NextResolve]_vars

\* one caller that also writes through the users it was handed
NextCaller ==
  \/ \E userID \in UserIDs, orgID \in OrgIDs : GetCached("c1", userID, orgID)
  \/ GetSignedInUser("c1")
  \/ CacheSet("c1")
  \/ Tick
  \/ \E t \in TeamIDs : WriteTeams("c1", 1, t)
  \/ WritePermissions("c1")

SpecCaller == Init /\ [][NextCaller]_vars

\* the organisation switch against a changing list of memberships
NextOrg ==
  \/ \E orgID \in SwitchOrgIDs : SetUsingOrg(1, orgID)
  \/ \E orgID \in SwitchOrgIDs : AddOrgUser(1, orgID)
  \/ \E i \in 1..Cardinality(SwitchOrgIDs) : RemoveOrgUser(1, i)

SpecOrg == Init /\ [][NextOrg]_vars

CreateCommands ==
  [Login : {"ann"}, Email : {"", "ann@x"}, Password : {"", "pw"},
   IsAdmin : BOOLEAN, SkipOrgSetup : BOOLEAN, DefaultOrgRole : {"", "Editor"}]

\* the calls of Create that can fail; Delete is only called after
\* InsertOrgUser failed
CreateCalls == {"GetIDForNewUser", "Get", "GetRandomString", "EncodePassword",
                "Insert", "InsertOrgUser"}
CreateFailures ==
  {{}} \cup {{c} : c \in CreateCalls} \cup {{"InsertOrgUser", "Delete"}}

\* user creation, every collaborator call failing or not
NextCreate ==
  \E cmd \in CreateCommands, autoAssignOrg \in BOOLEAN, orgID \in {1},
     fails \in CreateFailures :
    Create(cmd, autoAssignOrg, orgID, fails)

SpecCreate == Init /\ [][NextCreate]_vars

\* a panel plugin: builders are registered and the editors asked for, in any order
NextPanel ==
  \/ \E b \in OptionsBuilders : setPanelOptions(b)
  \/ \E current \in {Undefined} \cup {Defined(o) : o \in PanelOptions} :
       getOptionsEditors(current)

SpecPanel == Init /\ [][NextPanel]_vars

\* ---------------------------------------------------------------- claims
Ok(p) == call[p].pc = "done" /\ call[p].err = ""

\* C1: a second call within the 5 seconds after a call of the same caller
\* resolved and cached a user for the same (userID, orgID) is a hit: it calls
\* neither the store nor the team service and returns a user equal to the
\* first one, whatever organisation the store resolved the user into.
C1_SecondCallHits ==
  \A p \in Callers :
    call[p].first # NilUser =>
      /\ call[p].hit
      /\ call[p].nStore = 0
      /\ call[p].nTeam = 0
      /\ call[p].pc = "done" => (call[p].err = "" /\ Deep(call[p].ret) = Deep(call[p].first))

\* C2: a call whose resolution fails returns the failure and no user, and no
\* step of it changes the cache; with no entry found for the pair, the next
\* call for it goes to the store again.
C2_FailureLeavesCache ==
  [][\A p \in Callers :
       /\ (call'[p] # call[p] /\ call'[p].pc = "done" /\ call'[p].err # "") =>
            /\ cache' = cache
            /\ lastSet' = lastSet
            /\ call'[p].ret = NilUser
            /\ call'[p].nWrite = 0
            /\ call'[p].err \in {"user not found", "team lookup failed"}
       /\ (call'[p] # call[p] /\ call'[p].pc = "miss") => cache' = cache
       /\ (/\ call[p].pc = "done" /\ call[p].err # ""
           /\ call'[p] # call[p] /\ call'[p].query = call[p].query
           /\ ~CacheFound(cache, newSignedInUserCacheKey(call[p].query.OrgID,
                                                          call[p].query.UserID))) =>
            call'[p].pc = "miss"]_vars

C2_Witness ==
  \E p \in Callers :
    /\ call[p].pc = "done" /\ call[p].err = "team lookup failed"
    /\ call[p].nStore = 1 /\ call[p].nTeam = 1
    /\ DOMAIN cache # {}

\* C3: a successful call that missed made exactly one store fetch, one team
\* lookup and one cache write.
C3_OneResolveOneWrite ==
  \A p \in Callers :
    (Ok(p) /\ ~call[p].hit) =>
      call[p].nStore = 1 /\ call[p].nTeam = 1 /\ call[p].nWrite = 1

C3_Witness ==
  \E p \in Callers :
    /\ Ok(p) /\ ~call[p].hit /\ call[p].nWrite = 1
    /\ WriteKey(call[p].query, call[p].ret) \in DOMAIN cache

\* C4: every entry lives exactly 5 seconds from its write, and a call that
\* meets an entry written more than 5 seconds before misses: it resolves the
\* user again and, on success, writes the cache.
C4_ExpiredEntryIgnored ==
  /\ \A k \in DOMAIN cache :
       /\ k \in DOMAIN lastSet
       /\ lastSet[k].age <= 5 => cache[k].left = 5 - lastSet[k].age
       /\ lastSet[k].age > 5 => ~CacheFound(cache, k)
  /\ \A p \in Callers :
       call[p].stale =>
         /\ ~call[p].hit
         /\ Ok(p) => (call[p].nStore = 1 /\ call[p].nTeam = 1 /\ call[p].nWrite = 1)

C4_Witness ==
  \E p \in Callers :
    /\ call[p].stale /\ Ok(p) /\ call[p].nWrite = 1
    /\ LET k == WriteKey(call[p].query, call[p].ret)
       IN k \in DOMAIN cache /\ cache[k].val = call[p].ret /\ cache[k].left = 5

\* C5: SetUsingOrg calls store.UpdateUser, and the active organisation
\* changes, only when the org service listed the organisation for the user;
\* otherwise it returns an error ("user does not belong to org" when the
\* list was read) and the store is left alone.
Listed == \E i \in 1..Len(setOrg.orgs) : setOrg.orgs[i].OrgID = setOrg.OrgID

C5_SetUsingOrgOnlyOwnOrg ==
  setOrg.UserID # 0 =>
    /\ setOrg.nUpdate > 0 => (setOrg.looked /\ Listed)
    /\ usingOrg[setOrg.UserID] # setOrg.was =>
         (setOrg.nUpdate = 1 /\ Listed /\ setOrg.err = ""
            /\ usingOrg[setOrg.UserID] = setOrg.OrgID)
    /\ ~Listed =>
         (setOrg.err # "" /\ setOrg.nUpdate = 0 /\ usingOrg[setOrg.UserID] = setOrg.was)
    /\ (setOrg.looked /\ ~Listed) => setOrg.err = "user does not belong to org"
    /\ (Listed /\ setOrg.err = "") => usingOrg[setOrg.UserID] = setOrg.OrgID

\* the user is in {1, 3} and asks for 7
C5_Witness ==
  /\ setOrg.UserID = 1 /\ setOrg.OrgID = 7
  /\ setOrg.looked /\ Len(setOrg.orgs) = 2
  /\ {setOrg.orgs[i].OrgID : i \in 1..Len(setOrg.orgs)} = {1, 3}
  /\ setOrg.err = "user does not belong to org"
  /\ setOrg.was = 3 /\ usingOrg[1] = 3

\* C6: the Teams of the user GetSignedInUser returns are the IDs of the
\* teams the lookup returned: as many, in the same order.
C6_TeamsInLookupOrder ==
  \A p \in Callers :
    (call[p].pc = "resolved" /\ call[p].err = "") =>
      LET Teams == heapTeams[call[p].result.Teams]
      IN /\ Len(Teams) = Len(call[p].teamResult)
         /\ \A i \in 1..Len(call[p].teamResult) : Teams[i] = call[p].teamResult[i].Id

C6_Witness ==
  \E p \in Callers :
    /\ call[p].pc = "resolved" /\ call[p].err = ""
    /\ [i \in 1..Len(call[p].teamResult) |-> call[p].teamResult[i].Id] = <<5, 2, 9>>
    /\ heapTeams[call[p].result.Teams] = <<5, 2, 9>>

\* C7: a call that missed while another call for the same query was between
\* its own miss and its cache write still makes its store fetch, its team
\* lookup and its cache write and returns the user it resolved; every cache
\* entry holds the value of the latest write to its key.
C7_BothResolveLastWriterWins ==
  /\ \A p \in Callers :
       (call[p].raced /\ Ok(p)) =>
         /\ ~call[p].hit
         /\ call[p].nStore = 1 /\ call[p].nTeam = 1 /\ call[p].nWrite = 1
         /\ call[p].ret = call[p].result
  /\ \A k \in DOMAIN lastSet : k \in DOMAIN cache /\ cache[k].val = lastSet[k].val

C7_Witness ==
  \E p, q \in Callers :
    /\ p # q /\ Ok(p) /\ Ok(q) /\ call[p].raced /\ call[q].raced
    /\ call[p].query = call[q].query
    /\ call[p].ret # call[q].ret
    /\ LET k == WriteKey(call[p].query, call[p].ret)
       IN /\ k = WriteKey(call[q].query, call[q].ret)
          /\ lastSet[k].by = q
          /\ cache[k].val = call[q].ret

\* C8: while an entry stays in the cache unexpired and is not written again,
\* the user it shows (its Teams and Permissions included) does not change.
C8_CachedUserImmutable ==
  [][\A k \in DOMAIN cache :
       (/\ k \in DOMAIN cache'
        /\ cache'[k].val = cache[k].val
        /\ lastSet'[k].age >= lastSet[k].age
        /\ CacheFound(cache', k)) =>
         Deep(cache[k].val)' = Deep(cache[k].val)]_vars

\* C9: every cache entry sits under the key of its own OrgID, and a hit
\* returns a user in the organisation the query asked for.
C9_EntryOrgMatchesKey ==
  /\ \A k \in DOMAIN cache :
       /\ \E userID \in UserIDs, orgID \in OrgIDs : k = newSignedInUserCacheKey(orgID, userID)
       /\ \A userID \in UserIDs, orgID \in OrgIDs :
            k = newSignedInUserCacheKey(orgID, userID) => cache[k].val.OrgID = orgID
  /\ \A p \in Callers : call[p].hit => call[p].ret.OrgID = call[p].query.OrgID

\* the store resolved the user into another organisation than the query's
C9_Witness ==
  \E p \in Callers :
    /\ Ok(p) /\ ~call[p].hit /\ call[p].ret.OrgID # call[p].query.OrgID
    /\ newSignedInUserCacheKey(call[p].ret.OrgID, call[p].query.UserID) \in DOMAIN cache
    /\ newSignedInUserCacheKey(call[p].query.OrgID, call[p].query.UserID) \notin DOMAIN cache

\* C10: the tempUser handed to the team lookup holds the one permission
\* teams:read on teams:* for the resolved organisation; the user that is
\* returned has the UserID, OrgID and Permissions the store returned.
C10_TempUserStaysInside ==
  \A p \in Callers :
    (call[p].pc = "resolved" /\ call[p].err = "") =>
      LET tempUser == call[p].teamQuery.SignedInUser
          org == call[p].storeUser.OrgID
      IN /\ tempUser.OrgID = org
         /\ DOMAIN tempUser.Permissions = {org}
         /\ DOMAIN tempUser.Permissions[org] = {"teams:read"}
         /\ tempUser.Permissions[org]["teams:read"] = <<"teams:*">>
         /\ call[p].teamQuery.OrgId = org
         /\ call[p].teamQuery.UserId = call[p].storeUser.UserID
         /\ call[p].result.UserID = call[p].storeUser.UserID
         /\ call[p].result.OrgID = org
         /\ heapPerms[call[p].result.Permissions] = call[p].storePerms

C10_Witness ==
  \E p \in Callers :
    /\ call[p].pc = "resolved" /\ call[p].err = ""
    /\ call[p].storePerms = OnePerm(call[p].storeUser.OrgID, "users:read", <<"users:*">>)
    /\ heapPerms[call[p].result.Permissions] = call[p].storePerms
    /\ call[p].teamQuery.SignedInUser.Permissions # call[p].storePerms

\* C11: Create returns no error only when the user it inserted is in the
\* store and, unless SkipOrgSetup, its org-user link was inserted; when the
\* insertion of the link fails, Create returns an error and the user it
\* inserted is no longer in the store.
C11_CreateSuccessMeansStored ==
  created.called =>
    /\ created.err = "" =>
         /\ \E u \in userTable : u.ID = created.userID
         /\ ~created.SkipOrgSetup =>
              \E l \in orgUserTable : l.UserID = created.userID
    /\ created.linkFailed =>
         /\ created.err # ""
         /\ ~\E u \in userTable : u.ID = created.userID

\* C12: getOptionsEditors(current) returns the items the most recently
\* registered options builder produces on current; the memoized list of an
\* earlier call is returned only when it equals those items.
C12_ReturnsRequiredItems ==
  returned.called => returned.items = returned.required

====
